---- MODULE Spec2Model ----
(***************************************************************************)
(* ftp-deploy: one run of deploy() -- connect, ensure the remote state     *)
(* file, fetch the baseline, diff, and FTPSyncProvider.syncLocalToServer    *)
(* applying the change set through safeOperation.                          *)
(*                                                                         *)
(* Two variants of FTPSyncProvider are in the repository: the one with the *)
(* in-memory state and the periodic flushState (legacy = FALSE) and the    *)
(* older one with a try/catch around the loops and updateStateFile         *)
(* (legacy = TRUE).  deploy() is the same for both.                        *)
(*                                                                         *)
(* A path "a/b" is held as its "/"-split <<"a","b">>; "a/b/" is            *)
(* <<"a","b","">>.  A path string built by concatenation is held as its    *)
(* pieces, "/" among them, and resolved against the working directory of   *)
(* the session.  Spec runs deploy() with its default arguments over local  *)
(* trees and baselines of every size; ConfigSpec runs it over the values   *)
(* of server-dir, protocol, port, security and dangerous-clean-slate.      *)
(***************************************************************************)
EXTENDS Integers, Sequences, FiniteSets, TLC

VARIABLES
    pc,              \* position of the run in deploy()/syncLocalToServer()
    legacy,          \* which FTPSyncProvider variant runs
    dryRun,          \* args["dry-run"]
    localFiles,      \* data of the local manifest (getLocalFiles)
    localFile,       \* content of the local state file, local-dir + state-name
    remoteFile,      \* content of the state file on the server, or NoFile
    serverFiles,     \* data of the baseline returned by getServerFiles
    diffs,           \* DiffResult of getDiffs(localFiles, serverFiles)
    state,           \* this.state.data of the provider
    todo,            \* operations of syncLocalToServer not yet completed
    operationsCount, \* operationsCount of syncLocalToServer
    attempt,         \* loop variable of the running safeOperation
    lastError,       \* lastError of the running safeOperation
    reconnects,      \* reconnect() calls of the running safeOperation
    calls,           \* operation() calls the running safeOperation has made
    caught,          \* the messages of the faults the running safeOperation caught
    lastCall,        \* how the last safeOperation call ended, until the next one retries
    issued,          \* operations handed to the transport, in order
    applied,         \* operations the transport completed, in order
    skipped,         \* removeFile operations that ended in "skipping..."
    flushes,         \* flushState calls that reached the transport, in order
    errorCheckpoint, \* state-file writes and pushes between a fatal fault and the rethrow
    faulted,         \* whether any transport call of the run has failed
    error,           \* error deploy() throws, or NoError
    stateFileExists, \* stateFileExists of ensureStateFileExists
    fetched,         \* how getServerFiles ended: returned, or what its catch caught
    cwd,             \* working directory of the session this.client holds
    cwdBefore,       \* working directory when the running or last createFolder began
    mutating,        \* kinds of the mutating transport calls issued so far
    args,            \* the arguments of deploy() its paths and sessions come from
    pace,            \* whether five seconds can pass between two transport calls
    wiped,           \* whether clearWorkingDir has emptied the remote target
    sessions,        \* the control connections: deploy()'s client, the provider's own
    keepAlive,       \* sendNoopIfNeeded before the running or last transport call
    removals         \* the paths handed to client.removeDir, in order

vars == <<pc, legacy, dryRun, localFiles, localFile, remoteFile, serverFiles,
          diffs, state, todo, operationsCount, attempt, lastError, reconnects,
          calls, caught, lastCall, issued, applied, skipped, flushes, errorCheckpoint, faulted,
          error, stateFileExists, fetched, cwd, cwdBefore, mutating, args, pace, wiped,
          sessions, keepAlive, removals>>

----------------------------------------------------------------------------
(* Bounds of the model *)

\* local files f1..fn, n <= MaxFiles
MaxFiles == 6

----------------------------------------------------------------------------
(* Values *)

NoCode == "undefined"
NoHash == "undefined"

StateName == <<".ftp-deploy-sync-state.json">>

\* ErrorCode.FileNotFoundOrNoAccess
FileNotFoundOrNoAccess == "550"

FileSegs == <<"f1", "f2", "f3", "f4", "f5", "f6", "f7", "f8", "f9">>

FolderA == <<"a">>
FolderAB == <<"a", "b">>
FolderC == <<"c">>
FolderCD == <<"c", "d">>
FileCDG == <<"c", "d", "g">>

FileName(i) == <<FileSegs[i]>>

\* the pieces of a path string: the separator, the current directory, or a name
Slash == "/"
Dot == "."

RECURSIVE Split(_)
\* path.split("/") of a path string given by its pieces: the segments, each the
\* pieces between two separators
Split(path) ==
    IF path = <<>> THEN << <<>> >>
    ELSE LET rest == Split(Tail(path))
         IN  IF Head(path) = Slash THEN << <<>> >> \o rest
             ELSE << <<Head(path)>> \o Head(rest) >> \o Tail(rest)

\* the directory or file a path string names for a session whose working directory
\* is dir: a leading separator starts at the root, empty and "." segments are
\* dropped
Resolve(dir, path) ==
    (IF path # <<>> /\ Head(path) = Slash THEN <<>> ELSE dir)
        \o SelectSeq(Split(path), LAMBDA segment : segment # <<>> /\ segment # <<Dot>>)

RECURSIVE Join(_)
\* segments.join("/")
Join(segments) ==
    IF Len(segments) <= 1 THEN segments
    ELSE <<Head(segments), Slash>> \o Join(Tail(segments))

\* the directory a new session starts in, and the one args["server-dir"] names there
LoginDir == <<>>
ServerDir == Resolve(LoginDir, args.serverDir)

\* the state file getServerFiles downloads once ensureDir has entered server-dir
StateFilePath == ServerDir \o <<StateName>>

\* `${serverPath}${stateName}` as a session with working directory dir resolves it
ServerStatePath(dir) == Resolve(dir, args.serverDir \o StateName)

Folder(name) == [type |-> "folder", name |-> name, hash |-> NoHash]
File(name, hash) == [type |-> "file", name |-> name, hash |-> hash]

\* the paths of the model, parents before children
AllNames ==
    <<FolderA, FolderAB, FolderC, FolderCD, FileCDG>> \o [i \in 1..MaxFiles |-> FileName(i)]

Range(s) == {s[i] : i \in 1..Len(s)}

Names(data) == {data[i].name : i \in 1..Len(data)}

Reverse(s) == [i \in 1..Len(s) |-> s[Len(s) + 1 - i]]

IsFolder(item) == item.type = "folder"
IsFile(item) == item.type = "file"

----------------------------------------------------------------------------
(* Manifests *)

SyncFileDescription == "syncFileDescription"
CurrentSyncFileVersion == "currentSyncFileVersion"

\* the IFileList objects the code writes (generatedTime is not modelled)
Manifest(description, version, data) ==
    [exists |-> TRUE, description |-> description, version |-> version, data |-> data]

\* no file at that path
NoFile == [exists |-> FALSE, description |-> "", version |-> "", data |-> <<>>]

\* initialState of ensureStateFileExists, and the catch of getServerFiles
EmptyState == Manifest(SyncFileDescription, CurrentSyncFileVersion, <<>>)

\* a file on the server that JSON.parse rejects
NotJSON == [exists |-> TRUE, description |-> "<html>", version |-> "", data |-> <<>>]

\* a version other than currentSyncFileVersion
OtherSyncFileVersion == "0.0.1"

\* what getLocalFiles returns: the local tree, folders before their content
LocalManifest(withFolders, n) ==
    (IF withFolders THEN <<Folder(FolderA), Folder(FolderAB)>> ELSE <<>>)
        \o [i \in 1..n |-> File(FileName(i), "H1")]

\* a state file a previous run left on the server: with or without the folders
\* a and a/b, files f1..fm and, with `older`, a tree c/d/g that is gone locally
\* and another content of f1
Baseline(sharedFolders, older, m) ==
    (IF sharedFolders THEN <<Folder(FolderA), Folder(FolderAB)>> ELSE <<>>)
        \o (IF older
              THEN <<Folder(FolderC), Folder(FolderCD), File(FileCDG, "H1")>>
              ELSE <<>>)
        \o [i \in 1..m |-> File(FileName(i), IF i = 1 /\ older THEN "H2" ELSE "H1")]

----------------------------------------------------------------------------
(* HashDiff.getDiffs: the source of HashDiff is not in src/; this is the    *)
(* DiffEngine of the specification (section 4.1).                          *)

HasName(data, name) == name \in Names(data)

\* both manifests are indexed by path: a later entry of a path replaces an earlier one
EntryOf(data, name) ==
    data[CHOOSE i \in 1..Len(data) :
            /\ data[i].name = name
            /\ \A j \in (i + 1)..Len(data) : data[j].name # name]

\* the entries of data under the names of order, one per name, in that order
Indexed(data, order) ==
    LET present == SelectSeq(order, LAMBDA name : HasName(data, name))
    IN  [i \in 1..Len(present) |-> EntryOf(data, present[i])]

getDiffs(local, server) ==
    LET l == Indexed(local, AllNames)
        s == Indexed(server, AllNames)
        both(item) == HasName(server, item.name)
        differs(item) ==
            /\ IsFile(item)
            /\ IsFile(EntryOf(server, item.name))
            /\ item.hash # EntryOf(server, item.name).hash
        equal(item) ==
            \/ /\ IsFile(item)
               /\ IsFile(EntryOf(server, item.name))
               /\ item.hash = EntryOf(server, item.name).hash
            \/ /\ IsFolder(item)
               /\ IsFolder(EntryOf(server, item.name))
    IN  [upload  |-> SelectSeq(l, LAMBDA item : ~both(item)),
         replace |-> SelectSeq(l, LAMBDA item : both(item) /\ differs(item)),
         delete  |-> Reverse(SelectSeq(s, LAMBDA item : ~HasName(local, item.name))),
         same    |-> SelectSeq(l, LAMBDA item : both(item) /\ equal(item))]

NoDiffs == [upload |-> <<>>, replace |-> <<>>, delete |-> <<>>, same |-> <<>>]

----------------------------------------------------------------------------
(* Faults of the transport *)

ClientIsClosed == "Client is closed"
ServerSentFIN == "Server sent FIN packet"

\* errors a basic-ftp call rejects with: two connection drops, a 550 and a timeout
\* an Error: its message and its code property; retries and last are the two
\* values interpolated into the message of the error safeOperation throws
Error(message, code) == [message |-> message, retries |-> 0, last |-> "", code |-> code]

NoError == Error("", NoCode)

\* errors a basic-ftp call rejects with: two connection drops, a 550 and a timeout
Faults ==
    { Error(ClientIsClosed, NoCode),
      Error(ServerSentFIN, NoCode),
      Error("550 No such file or directory", FileNotFoundOrNoAccess),
      Error("Timeout (control socket)", NoCode) }

\* error of a failed client.access()
ConnectFault == Error("connect ECONNREFUSED", NoCode)

\* error of a failed client.list(), client.cdup() or client.ensureDir() outside safeOperation
TransportFault == Error("Timeout (control socket)", NoCode)

\* error of client.downloadTo() when the server has no such file, or denies access
DownloadFault == Error("550 No such file or directory", FileNotFoundOrNoAccess)

\* the SyntaxError of JSON.parse
\* new Error("dangerous-clean-slate was run")
CleanSlateError == Error("dangerous-clean-slate was run", NoCode)

ParseFault == Error("Unexpected token < in JSON at position 0", NoCode)

----------------------------------------------------------------------------
(* FTPSyncProvider.safeOperation *)

\* the default of the retries parameter
Retries == 3

\* the test that decides on reconnect(): String.includes on the fault's message
IsConnectionIssue(message) ==
    \/ message = ClientIsClosed
    \/ ~legacy /\ message = ServerSentFIN

\* `Operation failed after ${retries} attempts: ${lastError?.message}`
ExhaustedError(retries, last) ==
    [message |-> "Operation failed after ${retries} attempts: ${lastError?.message}",
     retries |-> retries, last |-> last.message, code |-> NoCode]

\* mutation of SafeOperationCatch: reconnect() is never called
SafeOperationCatchNoReconnect(f, reconnected) ==
    IF attempt + 1 < Retries
    THEN [next |-> "retry", error |-> NoError, reconnects |-> reconnects]
    ELSE [next |-> "throw", error |-> ExhaustedError(Retries, f), reconnects |-> reconnects]

\* mutation of SafeOperationCatch: reconnect() is called whatever the fault is
SafeOperationCatchAlwaysReconnect(f, reconnected) ==
    IF ~reconnected
    THEN [next |-> "throw", error |-> ConnectFault, reconnects |-> reconnects + 1]
    ELSE IF attempt + 1 < Retries
         THEN [next |-> "retry", error |-> NoError, reconnects |-> reconnects + 1]
         ELSE [next |-> "throw", error |-> ExhaustedError(Retries, f),
               reconnects |-> reconnects + 1]

\* The catch block and the end of the loop body, after operation() rejected with
\* fault f on iteration `attempt`; reconnected says whether client.access() of
\* reconnect() succeeds.  "retry": the loop goes on; "throw": safeOperation rejects.
SafeOperationCatch(f, reconnected) ==
    IF IsConnectionIssue(f.message) /\ ~reconnected
    THEN [next |-> "throw", error |-> ConnectFault, reconnects |-> reconnects + 1]
    ELSE LET r == IF IsConnectionIssue(f.message) THEN reconnects + 1 ELSE reconnects
         IN  IF attempt + 1 < Retries
             THEN [next |-> "retry", error |-> NoError, reconnects |-> r]
             ELSE [next |-> "throw", error |-> ExhaustedError(Retries, f), reconnects |-> r]

\* the record kept of a safeOperation call that has ended
CallRecord(of, result, made, recon, faults, fault, err) ==
    [of |-> of, result |-> result, calls |-> made, reconnects |-> recon,
     caught |-> faults, fault |-> fault, error |-> err]

NoCall == CallRecord("", "none", 0, 0, {}, NoError, NoError)

----------------------------------------------------------------------------
(* FTPSyncProvider.syncLocalToServer: the five loops *)

Op(kind, item) == [kind |-> kind, name |-> item.name]

Ops(kind, items) == [i \in 1..Len(items) |-> Op(kind, items[i])]

\* mutation of SyncQueue: the two delete loops run before the others
SyncQueueDeletesFirst(d) ==
    Ops("removeFile", SelectSeq(d.delete, IsFile))
    \o Ops("removeFolder", SelectSeq(d.delete, IsFolder))
    \o Ops("createFolder", SelectSeq(d.upload, IsFolder))
    \o Ops("upload", SelectSeq(d.upload, LAMBDA item : IsFile(item) /\ item.name # StateName))
    \o Ops("replace", SelectSeq(d.replace, LAMBDA item : IsFile(item) /\ item.name # StateName))

\* mutation of SyncQueue: the two folder loops walk their lists from the end
SyncQueueFoldersReversed(d) ==
    Ops("createFolder", Reverse(SelectSeq(d.upload, IsFolder)))
    \o Ops("upload", SelectSeq(d.upload, LAMBDA item : IsFile(item) /\ item.name # StateName))
    \o Ops("replace", SelectSeq(d.replace, LAMBDA item : IsFile(item) /\ item.name # StateName))
    \o Ops("removeFile", SelectSeq(d.delete, IsFile))
    \o Ops("removeFolder", Reverse(SelectSeq(d.delete, IsFolder)))

\* the operations in the order the loops issue them
SyncQueue(d) ==
    Ops("createFolder", SelectSeq(d.upload, IsFolder))
    \o Ops("upload", SelectSeq(d.upload, LAMBDA item : IsFile(item) /\ item.name # StateName))
    \o Ops("replace", SelectSeq(d.replace, LAMBDA item : IsFile(item) /\ item.name # StateName))
    \o Ops("removeFile", SelectSeq(d.delete, IsFile))
    \o Ops("removeFolder", SelectSeq(d.delete, IsFolder))

\* operationsCount % 5 === 0
FlushEvery == 5

\* mutation of FlushDue: the test is off by one
FlushDueOffByOne(count) == count % FlushEvery = 1

FlushDue(count) == count % FlushEvery = 0

\* getFileBreadcrumbs on the "/"-split of fullPath; a null folders is <<>> and a
\* null file is "", the values the code replaces by null
getFileBreadcrumbs(pathSplit) ==
    LET file == pathSplit[Len(pathSplit)]
        folders == SelectSeq(SubSeq(pathSplit, 1, Len(pathSplit) - 1),
                             LAMBDA folderName : folderName # "")
    IN  [folders |-> folders, file |-> file]

\* newEntry of createFolder
NewEntry(folderPath) == Folder(folderPath)

\* updateStateFile of the older variant: what it writes to the local state file
PartialState(d) ==
    LET tag(items, action) ==
            [i \in 1..Len(items) |->
                [type |-> items[i].type, name |-> items[i].name,
                 hash |-> items[i].hash, action |-> action]]
    IN  Manifest("Updated state after partial sync", CurrentSyncFileVersion,
                 tag(d.upload, "upload") \o tag(d.delete, "delete") \o tag(d.replace, "replace"))

----------------------------------------------------------------------------
(* deploy(): the state after createLocalState(localFiles, ...) *)

\* how many files f1..fn the local tree has, and f1..fm a state file on the server
LocalSizes == {0, 1, 2, MaxFiles - 1, MaxFiles}
BaselineSizes == {1, MaxFiles}

Baselines ==
    {NoFile, NotJSON, Manifest(SyncFileDescription, OtherSyncFileVersion, Baseline(FALSE, TRUE, 1))}
    \cup
    { Manifest(SyncFileDescription, CurrentSyncFileVersion, Baseline(sf, older, m)) :
        sf \in BOOLEAN, older \in BOOLEAN, m \in BaselineSizes }

\* how getServerFiles ended, and the error its catch block caught
Fetched(result, fault) == [result |-> result, fault |-> fault]

NoFetch == Fetched("none", NoError)

\* the arguments of deploy() the model varies
Args(serverDir, protocol, port, security, cleanSlate) ==
    [serverDir |-> serverDir, protocol |-> protocol, port |-> port,
     security |-> security, cleanSlate |-> cleanSlate]

RootAbsolute == <<Slash, "www", Slash>>

DefaultArgs == Args(RootAbsolute, "ftp", "21", "loose", FALSE)

\* the options of client.access()
AccessOptions(port, secure, rejectUnauthorized) ==
    [port |-> port, secure |-> secure, rejectUnauthorized |-> rejectUnauthorized]

NoOptions == AccessOptions("", "", FALSE)

\* connect(): secure and rejectUnauthorized come from args.protocol and args.security
ConnectOptions(a) ==
    AccessOptions(a.port,
                  CASE a.protocol = "ftps" -> "true"
                    [] a.protocol = "ftps-legacy" -> "implicit"
                    [] OTHER -> "false",
                  a.security = "strict")

\* reconnect(): access() is given no port, so the library's default is used
ReconnectOptions == AccessOptions("21", "true", FALSE)

NoSessions == [client |-> "none", own |-> "none", options |-> NoOptions]

\* reconnect(): this.client.close(), then this.client = new basicFtp.Client() and
\* access(), which resolves or rejects
AfterReconnect(s, resolved) ==
    [client |-> "closed",
     own |-> IF resolved THEN "open" ELSE "closed",
     options |-> IF resolved THEN ReconnectOptions ELSE s.options]

\* whether this.lastNoopTime can fall five seconds behind between two calls
Elapsed == IF pace = "slow" THEN BOOLEAN ELSE {FALSE}

NoKeepAlive == [stale |-> FALSE, due |-> FALSE, probe |-> "none"]

\* sendNoopIfNeeded(): NOOP is sent when due, lastNoopTime is set when it resolves,
\* its rejection is logged
sendNoopIfNeeded(due, ok) ==
    [stale |-> due /\ ~ok,
     due |-> due,
     probe |-> IF ~due THEN "none" ELSE IF ok THEN "sent" ELSE "failed"]

\* the operations that call sendNoopIfNeeded: createFolder and uploadFile
Probes(kind) == kind \in {"createFolder", "upload", "replace"}

\* how the NOOP of an operation can end, when one is sent
Replies(kind, elapsed) ==
    IF calls = 0 /\ Probes(kind) /\ (keepAlive.stale \/ elapsed) THEN BOOLEAN ELSE {TRUE}

\* removeFolder: "/" + (serverPath.startsWith("./") ? serverPath.replace("./", "")
\* : serverPath) + folderPath, the path string handed to client.removeDir
absoluteFolderPath(serverPath, folderPath) ==
    <<Slash>>
        \o (IF Len(serverPath) >= 2 /\ serverPath[1] = Dot /\ serverPath[2] = Slash
            THEN SubSeq(serverPath, 3, Len(serverPath))
            ELSE serverPath)
        \o Join(folderPath)

\* what precedes the first transport call of an operation or of flushState
BeforeCall(kind, elapsed, ok) ==
    LET due == keepAlive.stale \/ elapsed
    IN  IF Probes(kind) THEN sendNoopIfNeeded(due, ok)
        ELSE [stale |-> due, due |-> due, probe |-> "none"]

Init ==
    /\ pc = "connect"
    /\ legacy \in BOOLEAN
    /\ dryRun \in BOOLEAN
    /\ \E lf \in BOOLEAN, n \in LocalSizes : localFiles = LocalManifest(lf, n)
    /\ localFile = Manifest(SyncFileDescription, CurrentSyncFileVersion, localFiles)
    /\ remoteFile \in Baselines
    /\ serverFiles = <<>>
    /\ diffs = NoDiffs
    /\ state = <<>>
    /\ todo = <<>>
    /\ operationsCount = 0
    /\ attempt = 0
    /\ lastError = NoError
    /\ reconnects = 0
    /\ calls = 0
    /\ caught = {}
    /\ lastCall = NoCall
    /\ issued = <<>>
    /\ applied = <<>>
    /\ skipped = <<>>
    /\ flushes = <<>>
    /\ errorCheckpoint = [writes |-> 0, pushes |-> 0]
    /\ faulted = FALSE
    /\ error = NoError
    /\ stateFileExists = FALSE
    /\ fetched = NoFetch
    /\ cwd = LoginDir
    /\ cwdBefore = LoginDir
    /\ mutating = {}
    /\ args = DefaultArgs
    /\ pace = "fast"
    /\ wiped = FALSE
    /\ sessions = NoSessions
    /\ keepAlive = NoKeepAlive
    /\ removals = <<>>

frame == <<attempt, lastError, reconnects, calls, caught>>
config == <<legacy, dryRun, localFiles, args, pace>>
logs == <<issued, applied, skipped, flushes, errorCheckpoint, removals>>
startup == <<stateFileExists, fetched>>
session == <<cwd, cwdBefore>>

\* global.reconnect() -> connect(): client.access() resolves or rejects
Connect ==
    /\ pc = "connect"
    /\ \E ok \in BOOLEAN :
        /\ pc' = IF ok THEN "ensure" ELSE "close"
        /\ error' = IF ok THEN error ELSE ConnectFault
        /\ faulted' = (faulted \/ ~ok)
        /\ sessions' = IF ok THEN [sessions EXCEPT !.client = "open",
                                                  !.options = ConnectOptions(args)]
                       ELSE sessions
    /\ UNCHANGED <<config, wiped, keepAlive, localFile, remoteFile, serverFiles, diffs, state, todo,
                   operationsCount, frame, lastCall, logs, startup, session, mutating>>

\* mutation of EnsureStateFileExists: nothing is uploaded when the listing has no
\* state file
EnsureStateFileExistsNoUpload ==
    /\ pc = "ensure"
    /\ \E r \in {"ok", "list rejects"} :
        /\ pc' = IF r = "ok" THEN "fetch" ELSE "close"
        /\ error' = IF r = "ok" THEN error ELSE TransportFault
        /\ faulted' = (faulted \/ r # "ok")
        /\ stateFileExists' = (r = "ok" /\ remoteFile.exists)
    /\ UNCHANGED <<config, wiped, sessions, keepAlive, localFile, remoteFile, serverFiles, diffs, state, todo,
                   operationsCount, frame, lastCall, logs, fetched, session, mutating>>

\* ensureStateFileExists: client.list(), then the empty state file is written
\* locally and uploaded when the listing has no state file
EnsureStateFileExists ==
    /\ pc = "ensure"
    /\ \E r \in {"ok", "list rejects", "uploadFrom rejects"} :
        /\ r = "uploadFrom rejects" => ~remoteFile.exists
        /\ pc' = IF r = "ok" THEN "fetch" ELSE "close"
        /\ error' = IF r = "ok" THEN error ELSE TransportFault
        /\ faulted' = (faulted \/ r # "ok")
        /\ localFile' = IF r # "list rejects" /\ ~remoteFile.exists THEN EmptyState ELSE localFile
        /\ remoteFile' = IF r = "ok" /\ ~remoteFile.exists
                                      /\ ServerStatePath(cwd) = StateFilePath
                          THEN EmptyState
                          ELSE remoteFile
        /\ stateFileExists' = (r # "list rejects" /\ remoteFile.exists)
        /\ mutating' = IF r # "list rejects" /\ ~remoteFile.exists
                          THEN mutating \cup {"uploadFrom"}
                          ELSE mutating
    /\ UNCHANGED <<config, wiped, sessions, keepAlive, serverFiles, diffs, state, todo, operationsCount, frame,
                   lastCall, logs, fetched, session>>

\* the transport calls of getServerFiles and how they can end: clearWorkingDir is
\* called for a clean slate that is no dry run, downloadTo when there is no clean
\* slate, and resolves when the state file is where it reads
FetchCalls ==
    {"ok", "ensureDir rejects"}
        \cup (IF args.cleanSlate /\ ~dryRun THEN {"clearWorkingDir rejects"} ELSE {})
        \cup (IF ~args.cleanSlate THEN {"downloadTo rejects"} ELSE {})

Downloads(r) == r = "ok" /\ ~args.cleanSlate

Clears(r) == r = "ok" /\ args.cleanSlate /\ ~dryRun

\* what getServerFiles ends with when its transport calls end as r: the error of
\* the first call that rejects, of JSON.parse, or none
FetchOutcome(r) ==
    CASE r \in {"ensureDir rejects", "clearWorkingDir rejects"} ->
             Fetched("caught", TransportFault)
      [] args.cleanSlate -> Fetched("caught", CleanSlateError)
      [] r = "downloadTo rejects" -> Fetched("caught", DownloadFault)
      [] remoteFile = NotJSON -> Fetched("caught", ParseFault)
      [] OTHER -> Fetched("returned", NoError)

\* mutation of getServerFiles: the catch block rethrows
getServerFilesRethrows ==
    /\ pc = "fetch"
    /\ \E r \in FetchCalls :
        /\ cwd' = IF r = "ensureDir rejects" THEN cwd ELSE Resolve(cwd, args.serverDir)
        /\ Downloads(r) => remoteFile.exists /\ Resolve(cwd', StateName) = StateFilePath
        /\ fetched' = FetchOutcome(r)
        /\ serverFiles' = IF fetched'.result = "returned" THEN remoteFile.data ELSE <<>>
        /\ wiped' = (wiped \/ Clears(r))
        /\ remoteFile' = IF Clears(r) THEN NoFile ELSE remoteFile
        /\ mutating' = mutating \cup {"ensureDir"}
                          \cup (IF r # "ensureDir rejects" /\ args.cleanSlate /\ ~dryRun
                                THEN {"clearWorkingDir"} ELSE {})
        /\ faulted' = (faulted \/ r # "ok")
        /\ pc' = IF fetched'.result = "returned" THEN "diff" ELSE "close"
        /\ error' = fetched'.fault
    /\ UNCHANGED <<config, sessions, keepAlive, localFile, diffs, state, todo, operationsCount,
                   frame, lastCall, logs, stateFileExists, cwdBefore>>

\* getServerFiles: ensureDir(server-dir), downloadFileList and JSON.parse; whatever
\* is thrown ends in the catch, which returns the empty list (args.exclude is
\* empty); with dangerous-clean-slate clearWorkingDir is called unless the run is
\* a dry run, and "dangerous-clean-slate was run" is thrown
getServerFiles ==
    /\ pc = "fetch"
    /\ \E r \in FetchCalls :
        /\ cwd' = IF r = "ensureDir rejects" THEN cwd ELSE Resolve(cwd, args.serverDir)
        /\ Downloads(r) => remoteFile.exists /\ Resolve(cwd', StateName) = StateFilePath
        /\ fetched' = FetchOutcome(r)
        /\ serverFiles' = IF fetched'.result = "returned" THEN remoteFile.data ELSE <<>>
        /\ wiped' = (wiped \/ Clears(r))
        /\ remoteFile' = IF Clears(r) THEN NoFile ELSE remoteFile
        /\ mutating' = mutating \cup {"ensureDir"}
                          \cup (IF r # "ensureDir rejects" /\ args.cleanSlate /\ ~dryRun
                                THEN {"clearWorkingDir"} ELSE {})
        /\ faulted' = (faulted \/ r # "ok")
    /\ pc' = "diff"
    /\ UNCHANGED <<config, sessions, keepAlive, localFile, diffs, state, todo, operationsCount,
                   frame, lastCall, logs, error, stateFileExists, cwdBefore>>

\* mutation of AfterLoops: no flushState after the loops
AfterLoopsNoFinal == "close"

\* where syncLocalToServer goes once its five loops are done
AfterLoops == IF legacy THEN "close" ELSE "final"

\* the data of this.state after the constructor
LoadState ==
    IF legacy THEN <<>> ELSE IF localFile.exists THEN localFile.data ELSE <<>>

\* diffTool.getDiffs, new FTPSyncProvider(...) and the entry of syncLocalToServer
Diff ==
    /\ pc = "diff"
    /\ diffs' = getDiffs(localFiles, serverFiles)
    /\ state' = LoadState
    /\ todo' = SyncQueue(diffs')
    /\ pc' = IF todo' = <<>> THEN AfterLoops ELSE "apply"
    /\ UNCHANGED <<config, wiped, sessions, keepAlive, localFile, remoteFile, serverFiles, operationsCount, frame,
                   lastCall, logs, faulted, error, startup, session, mutating>>

----------------------------------------------------------------------------
(* syncLocalToServer *)

ResetFrame ==
    /\ attempt' = 0
    /\ lastError' = NoError
    /\ reconnects' = 0
    /\ calls' = 0
    /\ caught' = {}

\* the loop body after the operation returned: operationsCount++ and the test for
\* flushState (the older variant has neither)
Completed ==
    /\ todo' = Tail(todo)
    /\ operationsCount' = IF legacy THEN operationsCount ELSE operationsCount + 1
    /\ pc' = IF ~legacy /\ FlushDue(operationsCount') THEN "flush"
             ELSE IF todo' = <<>> THEN AfterLoops
             ELSE "apply"

\* what createFolder records once ensureDir is done: this.state.data.push(newEntry)
\* and createLocalState(this.state), or updateStateFile of the one folder
StateAfter(op) ==
    IF op.kind = "createFolder" /\ ~legacy THEN Append(state, NewEntry(op.name)) ELSE state

LocalFileAfter(op) ==
    IF op.kind # "createFolder" THEN localFile
    ELSE IF legacy THEN PartialState([NoDiffs EXCEPT !.upload = <<NewEntry(op.name)>>])
    ELSE [localFile EXCEPT !.data = StateAfter(op)]

\* mutation of Rethrown: the error is logged and the loop goes on
SkipAndContinue(e) ==
    /\ Completed
    /\ UNCHANGED <<error, localFile, errorCheckpoint, state, applied, skipped>>

\* an error leaves syncLocalToServer: the catch of the older variant calls
\* updateStateFile(diffs) and rethrows; deploy() logs, rethrows and closes
Rethrown(e) ==
    /\ error' = e
    /\ pc' = "close"
    /\ localFile' = IF legacy THEN PartialState(diffs) ELSE localFile
    /\ errorCheckpoint' =
         IF legacy THEN [errorCheckpoint EXCEPT !.writes = @ + 1] ELSE errorCheckpoint
    /\ UNCHANGED <<todo, operationsCount, state, applied, skipped>>

\* the folders createFolder descends into, and ascends from with upDir
Breadcrumbs(op) == getFileBreadcrumbs(Append(op.name, "")).folders

\* the working directory after client.ensureDir(folders.join("/")) entered the
\* first `entered` folders: the path is relative, each folder is made and entered
Descended(dir, folders, entered) == dir \o [i \in 1..entered |-> <<folders[i]>>]

\* the working directory after upDir(dirCount): client.cdup() dirCount times
Ascended(dir, dirCount) ==
    IF dirCount >= Len(dir) THEN <<>> ELSE SubSeq(dir, 1, Len(dir) - dirCount)

\* how many folders a rejected operation() had entered: an FTP error reply leaves
\* the session where the rejected command found it, the other faults are taken
\* to come before the first command
Entered(op, f) ==
    IF op.kind = "createFolder" /\ f.code # NoCode THEN 0..(Len(Breadcrumbs(op)) - 1) ELSE {0}

\* this.reconnect() resolved: this.client is a new session
Reconnected(c) == c.reconnects > reconnects /\ c.error # ConnectFault

\* with dry-run every operation returns before its transport call
DryRunOperation ==
    /\ pc = "apply"
    /\ dryRun
    /\ Completed
    /\ \E elapsed \in Elapsed : \E ok \in Replies(Head(todo).kind, elapsed) :
        keepAlive' = IF Head(todo).kind \in {"upload", "replace"}
                        THEN [sendNoopIfNeeded(keepAlive.stale \/ elapsed, ok)
                                 EXCEPT !.due = FALSE, !.probe = "none"]
                        ELSE [keepAlive EXCEPT !.stale = @ \/ elapsed]
    /\ UNCHANGED <<config, wiped, sessions, localFile, remoteFile, serverFiles, diffs, state, frame,
                   lastCall, logs, faulted, error, startup, session, mutating>>

\* operation() of the running safeOperation resolves; createFolder then calls
\* upDir, whose cdup may reject
OperationSucceeds ==
    /\ pc = "apply"
    /\ ~dryRun
    /\ LET op == Head(todo)
       IN  /\ issued' = IF calls = 0 THEN Append(issued, op) ELSE issued
           /\ removals' = IF calls = 0 /\ op.kind = "removeFolder"
                           THEN Append(removals, absoluteFolderPath(args.serverDir, op.name))
                           ELSE removals
           /\ lastCall' = CallRecord(op.kind, "returned", calls + 1, reconnects, caught, lastError, NoError)
           /\ ResetFrame
           /\ mutating' = mutating \cup {op.kind}
           /\ cwdBefore' = IF op.kind = "createFolder" /\ calls = 0 THEN cwd ELSE cwdBefore
           /\ \E elapsed \in Elapsed : \E ok \in Replies(op.kind, elapsed) :
               keepAlive' = IF calls = 0 THEN BeforeCall(op.kind, elapsed, ok) ELSE keepAlive
           /\ \E up \in BOOLEAN :
               /\ ~up => op.kind = "createFolder" /\ Len(Breadcrumbs(op)) > 0
               /\ IF up
                  THEN /\ Completed
                       /\ state' = StateAfter(op)
                       /\ localFile' = LocalFileAfter(op)
                       /\ applied' = Append(applied, op)
                       /\ cwd' = IF op.kind = "createFolder"
                                  THEN Ascended(Descended(cwd, Breadcrumbs(op),
                                                          Len(Breadcrumbs(op))),
                                                Len(Breadcrumbs(op)))
                                  ELSE cwd
                       /\ UNCHANGED <<skipped, errorCheckpoint, faulted, error>>
                  ELSE /\ Rethrown(TransportFault)
                       /\ cwd' = Descended(cwd, Breadcrumbs(op), Len(Breadcrumbs(op)))
                       /\ faulted' = TRUE
    /\ UNCHANGED <<config, wiped, sessions, remoteFile, serverFiles, diffs, flushes, startup>>

\* operation() of the running safeOperation rejects with f; removeFile catches what
\* safeOperation throws and tests its code
OperationFails ==
    /\ pc = "apply"
    /\ ~dryRun
    /\ \E f \in Faults, reconnected \in BOOLEAN :
        LET op == Head(todo)
            c == SafeOperationCatch(f, reconnected)
        IN  /\ reconnected \/ IsConnectionIssue(f.message)
            /\ issued' = IF calls = 0 THEN Append(issued, op) ELSE issued
            /\ removals' = IF calls = 0 /\ op.kind = "removeFolder"
                            THEN Append(removals, absoluteFolderPath(args.serverDir, op.name))
                            ELSE removals
            /\ faulted' = TRUE
            /\ mutating' = mutating \cup {op.kind}
            /\ cwdBefore' = IF op.kind = "createFolder" /\ calls = 0 THEN cwd ELSE cwdBefore
            /\ \E elapsed \in Elapsed : \E ok \in Replies(op.kind, elapsed) :
                keepAlive' = IF calls = 0 THEN BeforeCall(op.kind, elapsed, ok) ELSE keepAlive
            /\ sessions' = IF c.reconnects > reconnects
                            THEN AfterReconnect(sessions, c.error # ConnectFault)
                            ELSE sessions
            /\ \E entered \in Entered(op, f) :
                cwd' = IF Reconnected(c) THEN LoginDir
                       ELSE Descended(cwd, Breadcrumbs(op), entered)
            /\ IF c.next = "retry"
               THEN /\ attempt' = attempt + 1
                    /\ lastError' = f
                    /\ reconnects' = c.reconnects
                    /\ calls' = calls + 1
                    /\ caught' = caught \cup {f.message}
                    /\ lastCall' = NoCall
                    /\ UNCHANGED <<pc, todo, operationsCount, state, localFile, applied,
                                   skipped, errorCheckpoint, error>>
               ELSE /\ lastCall' = CallRecord(op.kind, "threw", calls + 1, c.reconnects,
                                                 caught \cup {f.message}, f, c.error)
                    /\ ResetFrame
                    /\ IF op.kind = "removeFile" /\ c.error.code = FileNotFoundOrNoAccess
                       THEN /\ Completed
                            /\ skipped' = Append(skipped, op)
                            /\ UNCHANGED <<state, localFile, applied, errorCheckpoint, error>>
                       ELSE Rethrown(c.error)
    /\ UNCHANGED <<config, wiped, remoteFile, serverFiles, diffs, flushes, startup>>

----------------------------------------------------------------------------
(* flushState *)

AfterFlush ==
    IF pc = "final" THEN "close" ELSE IF todo = <<>> THEN "final" ELSE "apply"

Flush(pushed) ==
    [at |-> operationsCount, pushed |-> pushed, file |-> localFile,
     to |-> ServerStatePath(cwd)]

\* if (!this.dryRun) is false: flushState does nothing
FlushDryRun ==
    /\ pc \in {"flush", "final"}
    /\ dryRun
    /\ pc' = AfterFlush
    /\ UNCHANGED <<config, wiped, sessions, keepAlive, localFile, remoteFile, serverFiles, diffs, state, todo,
                   operationsCount, frame, lastCall, logs, faulted, error, startup,
                   session, mutating>>

\* client.uploadFrom(local state file, server state file) resolves
FlushSucceeds ==
    /\ pc \in {"flush", "final"}
    /\ ~dryRun
    /\ remoteFile' = IF ServerStatePath(cwd) = StateFilePath THEN localFile ELSE remoteFile
    /\ flushes' = Append(flushes, Flush(TRUE))
    /\ \E elapsed \in Elapsed :
        keepAlive' = IF calls = 0 THEN BeforeCall("flushState", elapsed, FALSE) ELSE keepAlive
    /\ lastCall' = CallRecord("flushState", "returned", calls + 1, reconnects, caught, lastError, NoError)
    /\ ResetFrame
    /\ pc' = AfterFlush
    /\ mutating' = mutating \cup {"flushState"}
    /\ UNCHANGED <<config, removals, wiped, sessions, localFile, serverFiles, diffs, state, todo, operationsCount,
                   issued, applied, skipped, errorCheckpoint, faulted, error, startup,
                   session>>

\* client.uploadFrom rejects; what safeOperation throws is caught and logged
FlushFails ==
    /\ pc \in {"flush", "final"}
    /\ ~dryRun
    /\ \E f \in Faults, reconnected \in BOOLEAN :
        LET c == SafeOperationCatch(f, reconnected)
        IN  /\ reconnected \/ IsConnectionIssue(f.message)
            /\ cwd' = IF Reconnected(c) THEN LoginDir ELSE cwd
            /\ sessions' = IF c.reconnects > reconnects
                            THEN AfterReconnect(sessions, c.error # ConnectFault)
                            ELSE sessions
            /\ IF c.next = "retry"
               THEN /\ attempt' = attempt + 1
                    /\ lastError' = f
                    /\ reconnects' = c.reconnects
                    /\ calls' = calls + 1
                    /\ caught' = caught \cup {f.message}
                    /\ lastCall' = NoCall
                    /\ UNCHANGED <<pc, flushes>>
               ELSE /\ lastCall' = CallRecord("flushState", "threw", calls + 1, c.reconnects,
                                                 caught \cup {f.message}, f, c.error)
                    /\ ResetFrame
                    /\ flushes' = Append(flushes, Flush(FALSE))
                    /\ pc' = AfterFlush
    /\ faulted' = TRUE
    /\ mutating' = mutating \cup {"flushState"}
    /\ \E elapsed \in Elapsed :
        keepAlive' = IF calls = 0 THEN BeforeCall("flushState", elapsed, FALSE) ELSE keepAlive
    /\ UNCHANGED <<config, removals, wiped, localFile, remoteFile, serverFiles, diffs, state, todo,
                   operationsCount, issued, applied, skipped, errorCheckpoint, error,
                   startup, cwdBefore>>

\* finally { client.close() }: deploy() returns, or throws error
Close ==
    /\ pc = "close"
    /\ pc' = IF error = NoError THEN "done" ELSE "failed"
    /\ sessions' = [sessions EXCEPT !.client = "closed"]
    /\ UNCHANGED <<config, wiped, keepAlive, localFile, remoteFile, serverFiles, diffs, state, todo,
                   operationsCount, frame, lastCall, logs, faulted, error, startup,
                   session, mutating>>

Next ==
    \/ Connect
    \/ EnsureStateFileExists
    \/ getServerFiles
    \/ Diff
    \/ DryRunOperation
    \/ OperationSucceeds
    \/ OperationFails
    \/ FlushDryRun
    \/ FlushSucceeds
    \/ FlushFails
    \/ Close

Spec == Init /\ [][Next]_vars

----------------------------------------------------------------------------
(* Runs over the arguments of deploy() *)

\* values of args["server-dir"]: absolute, ".", "./", "./www/" and "www/"
RemoteRoots ==
    {RootAbsolute, <<Dot>>, <<Dot, Slash>>, <<Dot, Slash, "www", Slash>>, <<"www", Slash>>}

\* the arguments of a run: every root, every protocol, port and security setting,
\* and dangerous-clean-slate, each with the other arguments at their defaults
Configs ==
    {Args(root, "ftp", "21", "loose", FALSE) : root \in RemoteRoots}
        \cup {Args(RootAbsolute, protocol, port, security, FALSE) :
                protocol \in {"ftp", "ftps", "ftps-legacy"},
                port \in {"21", "990"},
                security \in {"loose", "strict"}}
        \cup {Args(RootAbsolute, "ftp", "21", "loose", TRUE)}

\* a state file that lists f1 as a folder
KindConflict == <<Folder(FileName(1))>>

\* the state files a run over the arguments can find on the server
ConfigBaselines ==
    {NoFile,
     Manifest(SyncFileDescription, CurrentSyncFileVersion, Baseline(FALSE, TRUE, 1)),
     Manifest(SyncFileDescription, CurrentSyncFileVersion, KindConflict)}

ConfigInit ==
    /\ pc = "connect"
    /\ legacy \in BOOLEAN
    /\ dryRun \in BOOLEAN
    /\ localFiles = LocalManifest(TRUE, 1)
    /\ localFile = Manifest(SyncFileDescription, CurrentSyncFileVersion, localFiles)
    /\ remoteFile \in ConfigBaselines
    /\ serverFiles = <<>>
    /\ diffs = NoDiffs
    /\ state = <<>>
    /\ todo = <<>>
    /\ operationsCount = 0
    /\ attempt = 0
    /\ lastError = NoError
    /\ reconnects = 0
    /\ calls = 0
    /\ caught = {}
    /\ lastCall = NoCall
    /\ issued = <<>>
    /\ applied = <<>>
    /\ skipped = <<>>
    /\ flushes = <<>>
    /\ errorCheckpoint = [writes |-> 0, pushes |-> 0]
    /\ faulted = FALSE
    /\ error = NoError
    /\ stateFileExists = FALSE
    /\ fetched = NoFetch
    /\ cwd = LoginDir
    /\ cwdBefore = LoginDir
    /\ mutating = {}
    /\ args \in Configs
    /\ pace \in IF args = DefaultArgs THEN {"fast", "slow"} ELSE {"fast"}
    /\ wiped = FALSE
    /\ sessions = NoSessions
    /\ keepAlive = NoKeepAlive
    /\ removals = <<>>

\* every step of deploy() awaits a transport call that resolves or rejects (the
\* client has a timeout), so a run that can take a step takes one
ConfigSpec == ConfigInit /\ [][Next]_vars /\ WF_vars(Next)

----------------------------------------------------------------------------
(* Properties *)

Last(s) == s[Len(s)]

\* the run is inside, or has left, syncLocalToServer of the variant with flushState
Periodic == ~legacy /\ ~dryRun

\* deploy() has returned after the final flushState pushed the state file
FinalManifestPushed ==
    /\ pc = "done"
    /\ flushes # <<>>
    /\ Last(flushes).pushed

\* the hash the local tree has for a file
LocalHash(name) == EntryOf(localFiles, name).hash

\* C1 -- Idempotence: after a fault-free non-dry run that applied the change set
\* and pushed its final manifest, the diff of the same local manifest against the
\* manifest now on the server has every local entry in same and nothing in
\* upload, replace or delete.
C1_Idempotence ==
    (Periodic /\ ~faulted /\ FinalManifestPushed) =>
        LET again == getDiffs(localFiles, remoteFile.data)
        IN  /\ again.upload = <<>>
            /\ again.replace = <<>>
            /\ again.delete = <<>>
            /\ Names(again.same) = Names(localFiles)

\* whether a manifest accounts for an applied operation
Accounted(op, data) ==
    CASE op.kind = "createFolder" -> HasName(data, op.name) /\ IsFolder(EntryOf(data, op.name))
      [] op.kind \in {"upload", "replace"} ->
            /\ HasName(data, op.name)
            /\ IsFile(EntryOf(data, op.name))
            /\ EntryOf(data, op.name).hash = LocalHash(op.name)
      [] OTHER -> ~HasName(data, op.name)

\* the applied operations the manifest on the server does not account for
Unaccounted == {i \in 1..Len(applied) : ~Accounted(applied[i], remoteFile.data)}

\* C2 -- Bounded state drift: wherever the run is killed, the manifest last pushed
\* to the server fails to account for at most 5 of the operations applied so far.
C2_BoundedDrift ==
    (Periodic /\ ~faulted) => Cardinality(Unaccounted) <= 5

\* the next operation has not started: no operation() call of it has been made
BetweenOperations == pc \in {"apply", "final"} /\ calls = 0

\* C3 -- Periodic checkpoint: in a non-dry run, once a 5th, 10th, ... operation
\* has completed, and before the next one starts, flushState has run for that
\* count, the local state file holds the serialized in-memory manifest, and the
\* push, when the transport accepted it, put that file on the server.
C3_PeriodicCheckpoint ==
    (Periodic /\ BetweenOperations /\ operationsCount > 0 /\ operationsCount % 5 = 0) =>
        /\ flushes # <<>>
        /\ Last(flushes).at = operationsCount
        /\ Last(flushes).file = localFile
        /\ localFile.data = state
        /\ Last(flushes).pushed => remoteFile = localFile

C3_Witness ==
    /\ Periodic
    /\ pc = "apply"
    /\ calls = 0
    /\ operationsCount = 5
    /\ flushes # <<>>
    /\ Last(flushes).pushed
    /\ Last(flushes).at = 5
    /\ state # <<>>
    /\ remoteFile.data = state

\* whether the in-memory manifest reflects an applied operation
Reflected(op, data) ==
    CASE op.kind \in {"createFolder", "upload"} -> HasName(data, op.name)
      [] op.kind = "replace" ->
            HasName(data, op.name) /\ EntryOf(data, op.name).hash = LocalHash(op.name)
      [] OTHER -> ~HasName(data, op.name)

\* C4 -- After each applied operation and before the next begins, the in-memory
\* manifest reflects it: entry added for a created folder or uploaded file,
\* updated for a replaced file, removed for a deleted file or folder.
C4_StateReflectsApplied ==
    (Periodic /\ ~faulted /\ BetweenOperations) =>
        \A i \in 1..Len(applied) : Reflected(applied[i], state)

\* an operation of the change set threw out of syncLocalToServer
SyncFailed == error # NoError /\ todo # <<>>

\* C5 -- Whenever an operation inside syncLocalToServer raises a fatal fault,
\* exactly one final checkpoint (local write and push to the server) is attempted
\* before the fault is re-raised.
C5_CheckpointOnError ==
    SyncFailed => errorCheckpoint = [writes |-> 1, pushes |-> 1]

\* an operation that was issued and neither applied nor skipped
Unfinished(op) == op \notin Range(applied) \cup Range(skipped)

\* C6 -- No skip-and-continue: once an operation raises a fault (other than a
\* tolerated not-found on a file delete) no later operation of the change set is
\* issued to the transport and the run ends with an error.
C6_NoSkipAndContinue ==
    \A i \in 1..Len(issued) :
        Unfinished(issued[i]) =>
            /\ i = Len(issued)
            /\ \/ pc = "apply" /\ todo # <<>> /\ Head(todo) = issued[i]
               \/ pc \in {"close", "failed"} /\ error # NoError

C6_Witness ==
    /\ pc = "failed"
    /\ SyncFailed
    /\ applied # <<>>
    /\ Len(todo) > 1
    /\ Last(issued) = Head(todo)
    /\ lastCall.result = "threw"
    /\ lastCall.calls = 3

BucketRank(kind) ==
    CASE kind = "createFolder" -> 1
      [] kind = "upload" -> 2
      [] kind = "replace" -> 3
      [] kind = "removeFile" -> 4
      [] kind = "removeFolder" -> 5

\* C7 -- Bucket order: every folder creation is issued before any new-file upload,
\* every upload before any replacement, every replacement before any file
\* deletion, every file deletion before any folder deletion.
C7_BucketOrder ==
    \A i, j \in 1..Len(issued) :
        i < j => BucketRank(issued[i].kind) <= BucketRank(issued[j].kind)

C7_Witness ==
    {issued[i].kind : i \in 1..Len(issued)} =
        {"createFolder", "upload", "replace", "removeFile", "removeFolder"}

\* a is a proper ancestor of b
Ancestor(a, b) == Len(a) < Len(b) /\ SubSeq(b, 1, Len(a)) = a

C9_NotFoundTolerated ==
    (lastCall.of = "removeFile" /\ lastCall.result = "threw"
        /\ lastCall.fault.code = FileNotFoundOrNoAccess
        /\ Cardinality(lastCall.caught) = 1) =>
            /\ error = NoError
            /\ skipped # <<>>

\* C10 -- Retry exhaustion: a safeOperation call that fails has made exactly 3
\* attempts and throws an error carrying the count 3 and the message of the last
\* fault.
C10_RetryExhaustion ==
    lastCall.result = "threw" =>
        /\ lastCall.calls = 3
        /\ lastCall.error.retries = 3
        /\ lastCall.error.last = lastCall.fault.message

\* the last safeOperation call failed twice, each time with a fault of the
\* connection-dropped signature, and returned on its third attempt
TwiceThenSuccess ==
    /\ lastCall.result = "returned"
    /\ lastCall.calls = 3
    /\ \A message \in lastCall.caught : IsConnectionIssue(message)

\* C11, as stated -- an operation that fails twice with a connection-dropped fault
\* and succeeds on the third attempt returns success and has triggered exactly one
\* reconnect.
C11_ExactlyOneReconnect ==
    TwiceThenSuccess => lastCall.reconnects = 1

\* C11, amended -- an operation that fails twice with a connection-dropped fault
\* and succeeds on the third attempt returns success and has triggered exactly two
\* reconnects, one after each failed attempt.
C11_ReconnectPerDrop ==
    TwiceThenSuccess => lastCall.reconnects = 2

C11_Witness ==
    /\ TwiceThenSuccess
    /\ lastCall.of = "upload"
    /\ lastCall.caught = {ClientIsClosed}
    /\ lastCall.reconnects = 2
    /\ applied # <<>>

\* dir is the directory d or below it
Under(dir, d) == Len(d) <= Len(dir) /\ SubSeq(dir, 1, Len(d)) = d

\* C12 -- Fault classification: when safeOperation goes from a failed attempt to
\* the next one, reconnect() has run in between (the next attempt is on a new
\* session, in its login directory) if and only if the fault has the
\* connection-dropped signature; for any other fault the next attempt is on the same
\* session.
C12_FaultClassification ==
    [][attempt' = attempt + 1 =>
        IF IsConnectionIssue(lastError'.message)
        THEN reconnects' = reconnects + 1 /\ cwd' = LoginDir
        ELSE reconnects' = reconnects /\ Under(cwd', cwd)]_vars

C12_Witness ==
    /\ pc = "apply"
    /\ calls = 2
    /\ reconnects = 1
    /\ \E dropped, other \in caught : IsConnectionIssue(dropped) /\ ~IsConnectionIssue(other)

\* C13 -- Dry-run: a run with dry-run enabled issues no mutating transport call:
\* no directory creation, no upload (the state file included), no delete.
C13_DryRunMutatesNothing ==
    dryRun => mutating = {}

\* the baseline fetch found no state file: the listing of ensureStateFileExists
\* had none, or the download was answered with "no such file"
FirstPublish ==
    /\ fetched.result # "none"
    /\ ~stateFileExists \/ fetched.fault = DownloadFault

\* C14 -- First-publish bootstrap: when the server has no state file to fetch, the
\* run does not fail for it; the baseline of the diff is empty and every local
\* entry is a folder creation or a new-file upload.
C14_FirstPublishBootstrap ==
    FirstPublish =>
        /\ serverFiles = <<>>
        /\ error # NoError => SyncFailed
        /\ pc # "diff" =>
            /\ diffs.upload = localFiles
            /\ diffs.replace = <<>>
            /\ diffs.delete = <<>>
            /\ diffs.same = <<>>
            /\ SyncQueue(diffs) = Ops("createFolder", SelectSeq(localFiles, IsFolder))
                                    \o Ops("upload", SelectSeq(localFiles, IsFile))

C14_Witness ==
    /\ fetched = Fetched("caught", DownloadFault)
    /\ pc = "done"
    /\ ~dryRun
    /\ applied = <<Op("createFolder", Folder(FolderA)), Op("createFolder", Folder(FolderAB)),
                   Op("upload", File(FileName(1), "H1"))>>

\* C15 -- Corrupt or incompatible baseline: when the state file on the server is
\* not parsable, or its version is not the current one, the baseline of the diff is
\* empty and the run goes on.
C15_CorruptBaselineIgnored ==
    (pc = "diff" /\ (remoteFile = NotJSON \/ remoteFile.version # CurrentSyncFileVersion)) =>
        /\ serverFiles = <<>>
        /\ error = NoError

\* a transport call of connect, ensureStateFileExists or getServerFiles rejected,
\* other than the download finding no file or the file being unreadable
StartupFault ==
    \/ faulted /\ fetched.result = "none"
    \/ fetched.result = "caught" /\ fetched.fault = TransportFault

\* C16 -- Startup faults are fatal: after a transport fault while connecting,
\* ensuring the state file or fetching the baseline, the run ends with an error,
\* no diff is computed and no operation is issued.
C16_StartupFaultsFatal ==
    StartupFault =>
        /\ pc \in {"close", "failed"}
        /\ error # NoError
        /\ diffs = NoDiffs
        /\ issued = <<>>

\* ensureStateFileExists has returned
PastEnsure == pc = "fetch" \/ fetched.result # "none"

\* C17 -- Stable baseline publication: once ensureStateFileExists has returned, a
\* state file exists on the server, whatever happens later in the run; it is the
\* empty state when the listing had none.
C17_StableBaseline ==
    PastEnsure =>
        /\ remoteFile.exists
        /\ (pc = "fetch" /\ ~stateFileExists) => remoteFile = EmptyState

C17_Witness ==
    /\ pc = "failed"
    /\ fetched.result # "none"
    /\ ~stateFileExists
    /\ remoteFile = EmptyState
    /\ localFiles # <<>>

\* C18 -- Manifest persistence failure is fatal: a run in which a periodic or the
\* final push of the state file failed on every attempt does not end as a success.
C18_PersistFailureFatal ==
    pc = "done" => \A i \in 1..Len(flushes) : flushes[i].pushed

\* the last call is the ensureDir of a createFolder that then returned
FolderCreated ==
    /\ lastCall.of = "createFolder"
    /\ lastCall.result = "returned"
    /\ error = NoError

\* C19 -- Base directory restored: after createFolder returned, also when its
\* ensureDir was retried or the session was reconnected in between, the working
\* directory of the session is the one it was when createFolder was called.
C19_BaseDirectoryRestored ==
    FolderCreated => cwd = cwdBefore

\* at most one entry per path
Unique(data) ==
    \A i, j \in 1..Len(data) : data[i].name = data[j].name => i = j

\* C20 -- Manifest path uniqueness: the in-memory manifest, the local state file,
\* the state file on the server and every pushed manifest hold at most one entry
\* per path.
C20_UniquePaths ==
    /\ Unique(state)
    /\ Unique(localFile.data)
    /\ Unique(remoteFile.data)
    /\ \A i \in 1..Len(flushes) : Unique(flushes[i].file.data)

----------------------------------------------------------------------------
(* Session phases *)

\* the phases of a session in the order of deploy(): Connecting, EnsuringManifest,
\* FetchingBaseline, Diffing, Applying (with its periodic flushState), the final
\* flushState, and Closed from the finally block on
PhaseRank(p) ==
    CASE p = "connect" -> 1
      [] p = "ensure" -> 2
      [] p = "fetch" -> 3
      [] p = "diff" -> 4
      [] p \in {"apply", "flush"} -> 5
      [] p = "final" -> 6
      [] p \in {"close", "done", "failed"} -> 7

\* a step of a run without faults stays in its phase or enters the next one; an
\* empty change set makes Applying empty, and the older variant has no flushState
PhaseStep ==
    ~faulted' =>
        \/ PhaseRank(pc') = PhaseRank(pc)
        \/ PhaseRank(pc') = PhaseRank(pc) + 1
        \/ pc = "diff" /\ todo' = <<>> /\ PhaseRank(pc') = (IF legacy THEN 7 ELSE 6)
        \/ legacy /\ pc = "apply" /\ todo' = <<>> /\ pc' = "close"

----------------------------------------------------------------------------
(* Keep-alive *)

\* C22 -- Keep-alive: before every mutating call of a non-dry run (folder create,
\* upload, replace, file delete, folder delete, state-file push) that starts more
\* than five seconds after the last probe, a NOOP is sent first, and a NOOP that
\* fails does not keep the call from being made.
C22_KeepAlive ==
    /\ keepAlive.due => keepAlive.probe # "none"
    /\ keepAlive.probe = "failed" => issued # <<>> /\ Probes(Last(issued).kind)

----------------------------------------------------------------------------
(* Clean slate *)

\* C23 -- Clean slate: in a non-dry run with dangerous-clean-slate the whole remote
\* target has been wiped before any operation of the change set is handed to the
\* transport, and the wipe does not abort the run.
C23_CleanSlate ==
    (args.cleanSlate /\ ~dryRun) =>
        /\ issued # <<>> => wiped
        /\ (wiped /\ ~faulted) => error = NoError

----------------------------------------------------------------------------
(* The change set *)

\* getDiffs has returned
Diffed == fetched.result # "none" /\ pc # "diff"

\* the buckets of the change set that hold a path
BucketsOf(name) ==
    {bucket \in {"upload", "replace", "delete", "same"} : name \in Names(diffs[bucket])}

\* C24 -- ChangeSet is a partition: every path of the local manifest or of the
\* baseline, a path that is a file on one side and a folder on the other
\* included, is in exactly one of the buckets upload (folders to create and files
\* to upload), replace, delete and same.
C24_ChangeSetPartition ==
    Diffed =>
        \A name \in Names(localFiles) \cup Names(serverFiles) :
            Cardinality(BucketsOf(name)) = 1

----------------------------------------------------------------------------
(* removeFolder *)

\* the segments of the "/"-rooted path string of a folder under the remote root
RootedSegments(folderPath) ==
    << <<>> >> \o Resolve(<<>>, args.serverDir) \o [i \in 1..Len(folderPath) |-> <<folderPath[i]>>]

\* the removeFolder operations handed to the transport, in order
FoldersRemoved == SelectSeq(issued, LAMBDA op : op.kind = "removeFolder")

\* C25 -- Folder delete path resolution: whatever the remote root (absolute, ".",
\* "./" or "./relative/"), the path removeFolder hands to removeDir is the
\* "/"-rooted path of the folder under the root: its segments are those of the
\* root and of the folder, with no "." segment and no doubled slash.
C25_RemoveFolderPath ==
    \A i \in 1..Len(removals) : Split(removals[i]) = RootedSegments(FoldersRemoved[i].name)

----------------------------------------------------------------------------
(* Checkpoints *)

\* the server holds the file of a manifest entry with that content: the baseline
\* lists it with the same hash, or its upload or replacement has been applied
Held(entry) ==
    \/ /\ HasName(serverFiles, entry.name)
       /\ IsFile(EntryOf(serverFiles, entry.name))
       /\ EntryOf(serverFiles, entry.name).hash = entry.hash
    \/ [kind |-> "upload", name |-> entry.name] \in Range(applied)
    \/ [kind |-> "replace", name |-> entry.name] \in Range(applied)

\* C26 -- No over-claiming checkpoint: a manifest flushState has pushed lists a
\* file with a hash only if the server holds that file with that content, because
\* it was unchanged or because its upload or replacement has been applied; no
\* pushed manifest lists an upload or replacement that is still pending.
C26_NoOverClaiming ==
    \A i \in 1..Len(flushes) :
        flushes[i].pushed =>
            \A j \in 1..Len(flushes[i].file.data) :
                IsFile(flushes[i].file.data[j]) => Held(flushes[i].file.data[j])


\* C27 -- Checkpoint location consistency: whatever the remote root, relative or
\* absolute, the file flushState pushes to, periodically and at the end, is the
\* state file ensureStateFileExists looks for in the listing of server-dir and
\* getServerFiles downloads.
C27_CheckpointLocation ==
    \A i \in 1..Len(flushes) : flushes[i].to = StateFilePath

----------------------------------------------------------------------------
(* Sessions *)

\* the provider is on a session reconnect() opened, with calls still to make
OnOwnSession == sessions.own = "open" /\ pc \in {"apply", "flush", "final"}

\* C28 -- Base directory survives reconnect: once safeOperation has reconnected, the
\* retried operation and every later one are issued on a session whose working
\* directory is server-dir, which getServerFiles had entered, or below it.
C28_BaseDirectorySurvives ==
    (OnOwnSession /\ fetched.fault # TransportFault) => Under(cwd, ServerDir)


\* C29 -- Reconnect preserves connection parameters: a session reconnect() has
\* opened uses the port, the security mode (none, explicit TLS, implicit TLS)
\* and the certificate validation (strict or not) of the connection deploy() made
\* from its arguments.
C29_ReconnectPreservesOptions ==
    sessions.own = "open" => sessions.options = ConnectOptions(args)

\* C30 -- No leaked session: when deploy() has returned or thrown, neither the
\* session it opened nor a session reconnect() opened is still open.
C30_NoLeakedSession ==
    pc \in {"done", "failed"} => sessions.client # "open" /\ sessions.own # "open"

====
